---- MODULE Spec2Model ----
(***************************************************************************)
(* A model of the dynamic protobuf broker of rust-bdd:                     *)
(*   src/src/proto_dyn.rs  ProtoDyn (schema lookup, JSON <-> DynamicMessage *)
(*                         <-> wire bytes) and json_partial_match          *)
(*   src/src/broker.rs     Broker::send_message / Broker::expect_message   *)
(*   src/src/steps.rs      the cucumber steps that call the broker         *)
(*                                                                         *)
(* Strings that the code splits or concatenates on '.' (type names, topics)*)
(* are sequences of their dot-delimited segments: "company.project.v1.Ping"*)
(* is <<"company","project","v1","Ping">>, so string equality is sequence  *)
(* equality and format!("company.project.v1.{}", t) is concatenation.      *)
(***************************************************************************)
EXTENDS Integers, Sequences, FiniteSets, TLC

VARIABLES
    pc,         \* position of the test thread: "idle", "recv" (inside the loop of expect_message), "done"
    op,         \* the operation last started: "none", "send", "expect"
    message_name, \* argument of the running / last call
    body,       \* argument `body` of send_message (a JSON value)
    expected,   \* argument `expected` of expect_message (a JSON value)
    timeout_ms, \* argument `timeout_ms` of expect_message, in clock ticks
    result,     \* return value of the last call (a Result)
    pub_sock,   \* every multipart message written to the PUB socket, in order
    sub_sock,   \* receive queue of the SUB socket
    waited,     \* ticks the current recv_multipart has been blocked
    consumed,   \* messages recv_multipart returned during the running / last expect call
    arrivals,   \* number of messages that have arrived on the SUB socket so far
    calls,      \* number of broker calls started so far
    elapsed,    \* ticks the running / last expect call has been blocked in all its receives
    log,        \* every message that arrived on the SUB socket, in arrival order, with the
                \* number of the call that consumed it (0: still queued) and whether that call returned it
    pool,       \* ProtoDyn.pool, the descriptor pool
    fn_in,      \* input of the pure function under evaluation
    fn_out      \* its output

vars == <<pc, op, message_name, body, expected, timeout_ms, result, pub_sock, sub_sock,
          waited, consumed, arrivals, calls, elapsed, log, pool, fn_in, fn_out>>

brokerVars == <<pc, op, message_name, body, expected, timeout_ms, result, pub_sock, sub_sock,
                waited, consumed, arrivals, calls, elapsed, log>>

fnVars == <<fn_in, fn_out>>

----------------------------------------------------------------------------
(* 64-bit integers.  TLC's integers are 32 bits wide, so an integer of the *)
(* program is kept in three limbs, h * 2^60 + q * 2^30 + r with            *)
(* 0 <= q, r < 2^30: i64 is h \in -8..7, u64 is h \in 0..15.               *)

Limb == 2^30

Big(h, q, r) == [h |-> h, q |-> q, r |-> r]

\* a small TLC integer (|i| < 2^30) as a program integer
I64(i) == IF i >= 0 THEN Big(0, 0, i) ELSE Big(-1, Limb - 1, Limb + i)

Zero == I64(0)

\* serde_json Value::as_i64: Some for an integer in i64's range
FitsI64(n) == n.h >= -8 /\ n.h <= 7

\* serde_json Value::as_u64: Some for an integer in u64's range
FitsU64(n) == n.h >= 0 /\ n.h <= 15

\* `x as i32` for an i64 / u64 x: the low 32 bits, read as two's complement
AsI32(n) ==
    LET lo == n.q % 4
    IN  IF lo >= 2 THEN Big(-1, Limb - 4 + lo, n.r) ELSE Big(0, lo, n.r)

\* `x as u32` for a u64 x: the low 32 bits
AsU32(n) == Big(0, n.q % 4, n.r)

----------------------------------------------------------------------------
(* serde_json::Value.  One record shape for every variant; the fields a    *)
(* variant does not use hold a fixed filler.                               *)

NoObj == [k \in {} |-> 0]

JV(t, b, n, s, o, a) == [t |-> t, b |-> b, n |-> n, s |-> s, o |-> o, a |-> a]

JNull == JV("null", FALSE, Zero, "", NoObj, <<>>)
JBool(b) == JV("bool", b, Zero, "", NoObj, <<>>)
\* Number: an integer (PosInt / NegInt) ...
JNum(n) == JV("int", FALSE, n, "", NoObj, <<>>)
\* ... or a float; only floats with an integral value are modelled
JFloat(n) == JV("float", FALSE, n, "", NoObj, <<>>)
JStr(s) == JV("string", FALSE, Zero, s, NoObj, <<>>)
JObj(o) == JV("object", FALSE, Zero, "", o, <<>>)
JArr(a) == JV("array", FALSE, Zero, "", NoObj, a)
JInt(i) == JNum(I64(i))

\* an object with one / two members
Obj1(k, v) == JObj([x \in {k} |-> v])
Obj2(k1, v1, k2, v2) == JObj([x \in {k1, k2} |-> IF x = k1 THEN v1 ELSE v2])
Obj0 == JObj(NoObj)

\* iteration order of serde_json::Map (a BTreeMap: keys in ascending order)
KeyOrder == <<"a", "ack", "b", "bogus", "code", "data", "inner", "n", "opt", "ratio", "seq", "status", "text">>

KeyIndex(k) == CHOOSE i \in 1..Len(KeyOrder) : KeyOrder[i] = k

\* the keys of object o in iteration order
RECURSIVE KeysFrom(_, _)
KeysFrom(o, i) ==
    IF i > Len(KeyOrder) THEN <<>>
    ELSE IF KeyOrder[i] \in DOMAIN o THEN <<KeyOrder[i]>> \o KeysFrom(o, i + 1)
    ELSE KeysFrom(o, i + 1)

Keys(o) == KeysFrom(o, 1)

----------------------------------------------------------------------------
(* Results and errors (anyhow::Result).  An error is its message, the      *)
(* value formatted into the message, and the context wrapped around it.    *)

Err(msg, arg, ctx) == [msg |-> msg, arg |-> arg, ctx |-> ctx]
NoErr == Err("", <<>>, "")

Ok(v) == [ok |-> TRUE, val |-> v, err |-> NoErr]
Fail(v, e) == [ok |-> FALSE, val |-> v, err |-> e]

----------------------------------------------------------------------------
(* The descriptor pool (src/descriptor.bin, compiled by build.rs from the  *)
(* proto/ directory).  The .proto files are not part of the sources at     *)
(* hand; the catalog below has the Ping message with the `seq` field and   *)
(* the enum field `status` with OK = 0 that the specification's examples   *)
(* use, and one field of every kind and presence discipline the codec      *)
(* distinguishes.  `presence` is FieldDescriptor::supports_presence: TRUE  *)
(* for message fields and `optional` fields, FALSE for plain proto3 fields.*)

Field(name, number, kind, presence, enum, msg) ==
    [name |-> name, number |-> number, kind |-> kind, presence |-> presence, enum |-> enum, msg |-> msg]

NoField == Field("", 0, "", FALSE, "", <<>>)

Prefix == <<"company", "project", "v1">>

InnerName == Prefix \o <<"Inner">>

Enums == [e \in {"Status"} |-> <<[name |-> "OK", number |-> 0], [name |-> "ERROR", number |-> 1]>>]

Pool == <<
    [full_name |-> <<"legacy", "Pong">>,
     fields |-> <<Field("text", 1, "string", FALSE, "", <<>>)>>],
    [full_name |-> Prefix \o <<"Ping">>,
     fields |-> <<Field("seq", 1, "int32", FALSE, "", <<>>),
                  Field("status", 2, "enum", FALSE, "Status", <<>>),
                  Field("inner", 3, "message", TRUE, "", InnerName),
                  Field("opt", 4, "int32", TRUE, "", <<>>),
                  Field("data", 5, "bytes", FALSE, "", <<>>),
                  Field("ratio", 6, "double", FALSE, "", <<>>)>>],
    [full_name |-> Prefix \o <<"Pong">>,
     fields |-> <<Field("seq", 1, "int32", FALSE, "", <<>>),
                  Field("status", 2, "enum", TRUE, "Status", <<>>),
                  Field("ack", 3, "bool", FALSE, "", <<>>)>>],
    [full_name |-> InnerName,
     fields |-> <<Field("code", 1, "enum", FALSE, "Status", <<>>),
                  Field("n", 2, "uint32", FALSE, "", <<>>)>>]
>>

NoDesc == [full_name |-> <<>>, fields |-> <<>>]

Last(s) == s[Len(s)]

\* message_desc that searches by last segment before it tries the full name
message_desc_ShortFirst(name) ==
    IF \E i \in 1..Len(pool) : <<Last(pool[i].full_name)>> = name
    THEN Ok(pool[CHOOSE i \in 1..Len(pool) :
                    /\ <<Last(pool[i].full_name)>> = name
                    /\ \A j \in 1..(i - 1) : <<Last(pool[j].full_name)>> # name])
    ELSE IF \E i \in 1..Len(pool) : pool[i].full_name = name
    THEN Ok(pool[CHOOSE i \in 1..Len(pool) : pool[i].full_name = name])
    ELSE Fail(NoDesc, Err("message not found", name, ""))

\* ProtoDyn::message_desc: the exact full name, else the first message of the
\* pool whose last segment is the whole of `name`
message_desc(name) ==
    IF \E i \in 1..Len(pool) : pool[i].full_name = name
    THEN Ok(pool[CHOOSE i \in 1..Len(pool) : pool[i].full_name = name])
    ELSE IF \E i \in 1..Len(pool) : <<Last(pool[i].full_name)>> = name
    THEN LET first == CHOOSE i \in 1..Len(pool) :
                        /\ <<Last(pool[i].full_name)>> = name
                        /\ \A j \in 1..(i - 1) : <<Last(pool[j].full_name)>> # name
         IN  Ok(pool[first])
    ELSE Fail(NoDesc, Err("message not found", name, ""))

\* MessageDescriptor::get_field_by_name
HasFieldNamed(desc, k) == \E i \in 1..Len(desc.fields) : desc.fields[i].name = k
get_field_by_name(desc, k) == desc.fields[CHOOSE i \in 1..Len(desc.fields) : desc.fields[i].name = k]

\* MessageDescriptor::get_field (by number), used by merge
HasFieldNumbered(desc, n) == \E i \in 1..Len(desc.fields) : desc.fields[i].number = n
get_field(desc, n) == desc.fields[CHOOSE i \in 1..Len(desc.fields) : desc.fields[i].number = n]

\* EnumDescriptor::get_value_by_name / values().find(|v| v.name() == name)
HasEnumName(e, s) == \E i \in 1..Len(Enums[e]) : Enums[e][i].name = s
get_value_by_name(e, s) == Enums[e][CHOOSE i \in 1..Len(Enums[e]) : Enums[e][i].name = s].number

----------------------------------------------------------------------------
(* prost_reflect::Value and DynamicMessage.  A byte string is a token; the *)
(* token "<ff>" is the one that is not valid UTF-8.                        *)

NoMsg == [desc |-> <<>>, fields |-> NoObj, unknown |-> <<>>]

PV(k, b, n, s, m) == [k |-> k, b |-> b, n |-> n, s |-> s, m |-> m]
PbBool(b) == PV("Bool", b, Zero, "", NoMsg)
PbI32(n) == PV("I32", FALSE, n, "", NoMsg)
PbI64(n) == PV("I64", FALSE, n, "", NoMsg)
PbU32(n) == PV("U32", FALSE, n, "", NoMsg)
PbU64(n) == PV("U64", FALSE, n, "", NoMsg)
PbF32(n) == PV("F32", FALSE, n, "", NoMsg)
PbF64(n) == PV("F64", FALSE, n, "", NoMsg)
PbString(s) == PV("String", FALSE, Zero, s, NoMsg)
PbBytes(s) == PV("Bytes", FALSE, Zero, s, NoMsg)
PbEnumNumber(n) == PV("EnumNumber", FALSE, n, "", NoMsg)
PbMessage(m) == PV("Message", FALSE, Zero, "", m)

\* DynamicMessage::new
NewMessage(desc) == [desc |-> desc.full_name, fields |-> NoObj, unknown |-> <<>>]

DescOf(msg) == pool[CHOOSE i \in 1..Len(pool) : pool[i].full_name = msg.desc]

\* DynamicMessage::set_field
set_field(msg, f, val) ==
    [msg EXCEPT !.fields = [k \in DOMAIN msg.fields \cup {f.name} |-> IF k = f.name THEN val ELSE msg.fields[k]]]

\* Value::is_default
IsDefault(v) ==
    CASE v.k = "Bool" -> ~v.b
      [] v.k \in {"I32", "I64", "U32", "U64", "F32", "F64", "EnumNumber"} -> v.n = Zero
      [] v.k \in {"String", "Bytes"} -> v.s = ""
      [] OTHER -> FALSE

\* DynamicMessage::has_field: set, and either the field tracks presence or
\* the value is not the default of its kind
has_field(msg, f) ==
    /\ f.name \in DOMAIN msg.fields
    /\ (f.presence \/ ~IsDefault(msg.fields[f.name]))

\* base64::engine::general_purpose::STANDARD, as the pairs (text, bytes)
Base64Table == {<<"", "">>, <<"QQ==", "A">>, <<"aGk=", "hi">>, <<"/w==", "<ff>">>, <<"<b64>", "<bin>">>}
Base64Valid(s) == \E p \in Base64Table : p[1] = s
Base64Decode(s) == (CHOOSE p \in Base64Table : p[1] = s)[2]
Base64Encode(b) == (CHOOSE p \in Base64Table : p[2] = b)[1]

\* json_to_pbvalue (proto_dyn.rs), and the loop over the members of an
\* object that it shares with build_from_json; `top` tells the two apart
RECURSIVE json_to_pbvalue(_, _)
RECURSIVE SetMembers(_, _, _, _, _)

SetMembers(msg, o, keys, top, name) ==
    IF keys = <<>> THEN Ok(msg)
    ELSE LET k == Head(keys)
             desc == DescOf(msg)
         IN  IF ~HasFieldNamed(desc, k)
             THEN Fail(NoMsg, Err("unknown field", IF top THEN <<k>> \o name ELSE <<k>>, ""))
             ELSE LET f == get_field_by_name(desc, k)
                      r == json_to_pbvalue(f, o[k])
                  IN  IF ~r.ok THEN Fail(NoMsg, r.err)
                      ELSE SetMembers(set_field(msg, f, r.val), o, Tail(keys), top, name)

json_to_pbvalue(f, v) ==
    LET bad(text) == Fail(PbBool(FALSE), Err(text, <<>>, ""))
    IN  CASE f.kind = "bool" -> IF v.t = "bool" THEN Ok(PbBool(v.b)) ELSE bad("expected bool")
          [] f.kind = "int32" -> IF v.t = "int" /\ FitsI64(v.n) THEN Ok(PbI32(AsI32(v.n))) ELSE bad("expected i32")
          [] f.kind = "int64" -> IF v.t = "int" /\ FitsI64(v.n) THEN Ok(PbI64(v.n)) ELSE bad("expected i64")
          [] f.kind = "uint32" -> IF v.t = "int" /\ FitsU64(v.n) THEN Ok(PbU32(AsU32(v.n))) ELSE bad("expected u32")
          [] f.kind = "uint64" -> IF v.t = "int" /\ FitsU64(v.n) THEN Ok(PbU64(v.n)) ELSE bad("expected u64")
          [] f.kind = "float" -> IF v.t \in {"int", "float"} THEN Ok(PbF32(v.n)) ELSE bad("expected f32")
          [] f.kind = "double" -> IF v.t \in {"int", "float"} THEN Ok(PbF64(v.n)) ELSE bad("expected f64")
          [] f.kind = "string" -> IF v.t = "string" THEN Ok(PbString(v.s)) ELSE bad("expected string")
          [] f.kind = "bytes" ->
                IF v.t # "string" THEN bad("expected base64 string for bytes")
                ELSE IF ~Base64Valid(v.s) THEN Fail(PbBool(FALSE), Err("invalid base64", <<>>, "bytes must be base64"))
                ELSE Ok(PbBytes(Base64Decode(v.s)))
          [] f.kind = "message" ->
                IF v.t # "object" THEN bad("expected object")
                ELSE LET r == SetMembers(NewMessage(message_desc(f.msg).val), v.o, Keys(v.o), FALSE, <<>>)
                     IN  IF r.ok THEN Ok(PbMessage(r.val)) ELSE Fail(PbBool(FALSE), r.err)
          [] f.kind = "enum" ->
                IF v.t = "string"
                THEN IF HasEnumName(f.enum, v.s) THEN Ok(PbEnumNumber(I64(get_value_by_name(f.enum, v.s))))
                     ELSE Fail(PbBool(FALSE), Err("unknown enum", <<v.s>>, ""))
                ELSE IF v.t = "int" /\ FitsI64(v.n) THEN Ok(PbEnumNumber(AsI32(v.n)))
                ELSE bad("enum must be string or int")

\* build_from_json that skips the keys the schema does not define
build_from_json_Lenient(name, json) ==
    LET d == message_desc(name)
        known == IF json.t = "object" THEN {k \in DOMAIN json.o : HasFieldNamed(d.val, k)} ELSE {}
    IN  IF ~d.ok THEN Fail(NoMsg, d.err)
        ELSE IF json.t = "object"
        THEN SetMembers(NewMessage(d.val), [k \in known |-> json.o[k]], Keys([k \in known |-> json.o[k]]), TRUE, name)
        ELSE Ok(NewMessage(d.val))

\* ProtoDyn::build_from_json
build_from_json(name, json) ==
    LET d == message_desc(name)
    IN  IF ~d.ok THEN Fail(NoMsg, d.err)
        ELSE IF json.t = "object" THEN SetMembers(NewMessage(d.val), json.o, Keys(json.o), TRUE, name)
        ELSE Ok(NewMessage(d.val))

\* pbvalue_to_json / dynamic_to_json (proto_dyn.rs); List and Map values
\* do not occur, the catalog has no repeated or map field
RECURSIVE dynamic_to_json(_)
pbvalue_to_json(v) ==
    CASE v.k = "Bool" -> JBool(v.b)
      [] v.k \in {"I32", "I64", "U32", "U64", "EnumNumber"} -> JNum(v.n)
      [] v.k \in {"F32", "F64"} -> JFloat(v.n)
      [] v.k = "String" -> JStr(v.s)
      [] v.k = "Bytes" -> JStr(Base64Encode(v.s))
      [] v.k = "Message" -> dynamic_to_json(v.m)

dynamic_to_json(msg) ==
    LET desc == DescOf(msg)
        present == {i \in 1..Len(desc.fields) : has_field(msg, desc.fields[i])}
        names == {desc.fields[i].name : i \in present}
    IN  JObj([k \in names |-> pbvalue_to_json(msg.fields[k])])

\* ProtoDyn::to_json_value
to_json_value(msg) == dynamic_to_json(msg)

----------------------------------------------------------------------------
(* The wire format.  A payload is its sequence of (field number, wire type,*)
(* value) entries, and `bad` when the bytes end in a truncated or malformed*)
(* entry.  A length-delimited entry holds either a byte-string token or    *)
(* (`sub`) the entries of an embedded message.  A varint is an unsigned    *)
(* 64-bit integer.                                                         *)

VARINT == "varint"
FIXED64 == "fixed64"
LEN == "len"

WE(num, wt, n, s, sub, m) == [num |-> num, wt |-> wt, n |-> n, s |-> s, sub |-> sub, m |-> m]
Varint(num, n) == WE(num, VARINT, n, "", FALSE, <<>>)
Fixed64(num, n) == WE(num, FIXED64, n, "", FALSE, <<>>)
LenBytes(num, s) == WE(num, LEN, Zero, s, FALSE, <<>>)
LenMsg(num, m) == WE(num, LEN, Zero, "", TRUE, m)

Payload(entries, bad) == [entries |-> entries, bad |-> bad]

\* i64 <-> u64 reinterpretation (`as u64`, `as i64`)
ToU64(n) == IF n.h < 0 THEN Big(n.h + 16, n.q, n.r) ELSE n
ToI64(n) == IF n.h >= 8 THEN Big(n.h - 16, n.q, n.r) ELSE n

WireTypeOf(kind) ==
    CASE kind \in {"bool", "int32", "int64", "uint32", "uint64", "enum"} -> VARINT
      [] kind = "double" -> FIXED64
      [] kind \in {"string", "bytes", "message"} -> LEN

\* DynamicMessage::encode_to_vec: the populated fields in field-number
\* order, then the unknown fields that were kept by merge
RECURSIVE EncodeFields(_, _)
EncodeValue(f, v) ==
    CASE v.k = "Bool" -> Varint(f.number, IF v.b THEN I64(1) ELSE Zero)
      [] v.k \in {"I32", "I64", "U32", "U64", "EnumNumber"} -> Varint(f.number, ToU64(v.n))
      [] v.k \in {"F32", "F64"} -> Fixed64(f.number, v.n)
      [] v.k \in {"String", "Bytes"} -> LenBytes(f.number, v.s)
      [] v.k = "Message" -> LenMsg(f.number, EncodeFields(v.m, DescOf(v.m).fields) \o v.m.unknown)

\* EncodeFields that leaves out every field holding the default of its kind,
\* also the fields that track presence
EncodeFields_DefaultsSkipped(msg, fs) ==
    IF fs = <<>> THEN <<>>
    ELSE (IF Head(fs).name \in DOMAIN msg.fields /\ ~IsDefault(msg.fields[Head(fs).name])
          THEN <<EncodeValue(Head(fs), msg.fields[Head(fs).name])>> ELSE <<>>)
         \o EncodeFields(msg, Tail(fs))

EncodeFields(msg, fs) ==
    IF fs = <<>> THEN <<>>
    ELSE (IF has_field(msg, Head(fs)) THEN <<EncodeValue(Head(fs), msg.fields[Head(fs).name])>> ELSE <<>>)
         \o EncodeFields(msg, Tail(fs))

\* ProtoDyn::encode_message
encode_message(msg) == Ok(Payload(EncodeFields(msg, DescOf(msg).fields) \o msg.unknown, FALSE))

\* the bytes of a byte-string token read as an embedded message
TokenParses(s) == s \in {"", "hi"}
TokenEntries(s) == IF s = "hi" THEN <<Varint(13, I64(105))>> ELSE <<>>

\* the bytes of an embedded message read as a byte string
EntriesToken(m) == IF m = <<>> THEN "" ELSE "<bin>"

ValidUtf8(s) == s # "<ff>"

DecodeErr == Err("decode error", <<>>, "merge failed")

\* DynamicMessage::merge: known fields are checked against the wire type of
\* their kind and set (last one wins; an embedded message merges into the
\* one already there), unknown field numbers are kept aside
RECURSIVE Merge(_, _)
Merge(msg, entries) ==
    IF entries = <<>> THEN Ok(msg)
    ELSE LET e == Head(entries)
             desc == DescOf(msg)
         IN  IF ~HasFieldNumbered(desc, e.num)
             THEN Merge([msg EXCEPT !.unknown = Append(@, e)], Tail(entries))
             ELSE LET f == get_field(desc, e.num)
                      bytes == IF e.sub THEN EntriesToken(e.m) ELSE e.s
                  IN  IF e.wt # WireTypeOf(f.kind) THEN Fail(NoMsg, DecodeErr)
                      ELSE CASE f.kind = "bool" -> Merge(set_field(msg, f, PbBool(e.n # Zero)), Tail(entries))
                             [] f.kind = "int32" -> Merge(set_field(msg, f, PbI32(AsI32(e.n))), Tail(entries))
                             [] f.kind = "int64" -> Merge(set_field(msg, f, PbI64(ToI64(e.n))), Tail(entries))
                             [] f.kind = "uint32" -> Merge(set_field(msg, f, PbU32(AsU32(e.n))), Tail(entries))
                             [] f.kind = "uint64" -> Merge(set_field(msg, f, PbU64(e.n)), Tail(entries))
                             [] f.kind = "enum" -> Merge(set_field(msg, f, PbEnumNumber(AsI32(e.n))), Tail(entries))
                             [] f.kind = "double" -> Merge(set_field(msg, f, PbF64(e.n)), Tail(entries))
                             [] f.kind = "bytes" -> Merge(set_field(msg, f, PbBytes(bytes)), Tail(entries))
                             [] f.kind = "string" ->
                                   IF ValidUtf8(bytes) THEN Merge(set_field(msg, f, PbString(bytes)), Tail(entries))
                                   ELSE Fail(NoMsg, DecodeErr)
                             [] f.kind = "message" ->
                                   IF ~e.sub /\ ~TokenParses(e.s) THEN Fail(NoMsg, DecodeErr)
                                   ELSE LET old == IF f.name \in DOMAIN msg.fields THEN msg.fields[f.name].m
                                                   ELSE NewMessage(message_desc(f.msg).val)
                                            r == Merge(old, IF e.sub THEN e.m ELSE TokenEntries(e.s))
                                        IN  IF r.ok THEN Merge(set_field(msg, f, PbMessage(r.val)), Tail(entries))
                                            ELSE Fail(NoMsg, DecodeErr)

\* ProtoDyn::decode_message
decode_message(name, bytes) ==
    LET d == message_desc(name)
    IN  IF ~d.ok THEN Fail(NoMsg, d.err)
        ELSE IF bytes.bad THEN Fail(NoMsg, DecodeErr)
        ELSE Merge(NewMessage(d.val), bytes.entries)

----------------------------------------------------------------------------
\* json_partial_match that pairs the elements of two arrays by position
RECURSIVE json_partial_match_Positional(_, _)
json_partial_match_Positional(e, a) ==
    IF e.t = "object" /\ a.t = "object"
    THEN \A k \in DOMAIN e.o : k \in DOMAIN a.o /\ json_partial_match_Positional(e.o[k], a.o[k])
    ELSE IF e.t = "array" /\ a.t = "array"
    THEN Len(e.a) <= Len(a.a) /\ \A i \in 1..Len(e.a) : json_partial_match_Positional(e.a[i], a.a[i])
    ELSE e = a

\* json_partial_match with `any` for `all` over the members of the expected
\* object
RECURSIVE json_partial_match_AnyKey(_, _)
json_partial_match_AnyKey(e, a) ==
    IF e.t = "object" /\ a.t = "object"
    THEN \E k \in DOMAIN e.o : k \in DOMAIN a.o /\ json_partial_match_AnyKey(e.o[k], a.o[k])
    ELSE IF e.t = "array" /\ a.t = "array"
    THEN \A i \in 1..Len(e.a) : \E j \in 1..Len(a.a) : json_partial_match_AnyKey(e.a[i], a.a[j])
    ELSE e = a

\* json_partial_match (proto_dyn.rs)
RECURSIVE json_partial_match(_, _)
json_partial_match(e, a) ==
    IF e.t = "object" /\ a.t = "object"
    THEN \A k \in DOMAIN e.o : k \in DOMAIN a.o /\ json_partial_match(e.o[k], a.o[k])
    ELSE IF e.t = "array" /\ a.t = "array"
    THEN \A i \in 1..Len(e.a) : \E j \in 1..Len(a.a) : json_partial_match(e.a[i], a.a[j])
    ELSE e = a

\* normalize_json_for_comparison that also resolves the enum names inside a
\* nested message
normalize_json_for_comparison_Deep(exp, message) ==
    IF exp.t # "object" THEN Ok(exp)
    ELSE LET desc == DescOf(message)
             resolve(f, value) ==
                IF f.kind = "enum" /\ value.t = "string" /\ HasEnumName(f.enum, value.s)
                THEN JNum(I64(get_value_by_name(f.enum, value.s)))
                ELSE value
             norm(key) ==
                LET value == exp.o[key]
                IN  IF ~HasFieldNamed(desc, key) THEN value
                    ELSE LET f == get_field_by_name(desc, key)
                             sub == message_desc(f.msg).val
                         IN  IF f.kind = "message" /\ value.t = "object"
                             THEN JObj([k \in DOMAIN value.o |->
                                        IF HasFieldNamed(sub, k) THEN resolve(get_field_by_name(sub, k), value.o[k])
                                        ELSE value.o[k]])
                             ELSE resolve(f, value)
         IN  Ok(JObj([key \in DOMAIN exp.o |-> norm(key)]))

\* Broker::normalize_json_for_comparison (broker.rs); `message` is the
\* decoded message, of which only the descriptor is read
normalize_json_for_comparison(exp, message) ==
    IF exp.t # "object" THEN Ok(exp)
    ELSE LET desc == DescOf(message)
             norm(key) ==
                LET value == exp.o[key]
                IN  IF HasFieldNamed(desc, key)
                    THEN LET field_desc == get_field_by_name(desc, key)
                         IN  IF field_desc.kind = "enum" /\ value.t = "string" /\ HasEnumName(field_desc.enum, value.s)
                             THEN JNum(I64(get_value_by_name(field_desc.enum, value.s)))
                             ELSE value
                    ELSE value
         IN  Ok(JObj([key \in DOMAIN exp.o |-> norm(key)]))

----------------------------------------------------------------------------
(* The broker.  A multipart message is its number of frames, the bytes of  *)
(* the first frame (the topic, as dot-delimited segments; "<ff>" is a      *)
(* segment that is not valid UTF-8) and the payload in the second frame.   *)

MaxArrivals == 2
MaxCalls == 2
MaxTimeout == 1

Parts(n, topic, payload) == [nparts |-> n, topic |-> topic, payload |-> payload]

\* String::from_utf8_lossy: invalid sequences become U+FFFD
from_utf8_lossy(t) == [i \in 1..Len(t) |-> IF t[i] = "<ff>" THEN "<fffd>" ELSE t[i]]

NoResult == Fail(JNull, NoErr)

TimeoutErr(name) == Err("timeout waiting for", name, "")
RecvErr == Err("zmq error", <<>>, "recv_multipart failed")
SendErr == Err("zmq error", <<>>, "send multipart")
RcvtimeoErr == Err("zmq error", <<>>, "set rcvtimeo")

\* the arguments the steps and other callers pass
TypeNames == {<<"Ping">>, <<"Pong">>, Prefix \o <<"Ping">>, <<"Nope">>}

SendBodies == {
    Obj1("seq", JInt(5)),
    Obj1("status", JStr("OK")),
    Obj1("text", JStr("hi")),
    Obj1("bogus", JInt(1)),
    Obj1("inner", Obj1("bogus", JInt(1))),
    Obj1("seq", JStr("five")),
    Obj1("data", JStr("!!")),
    Obj1("status", JStr("BOGUS"))
}

Expectations == {
    Obj0,
    Obj1("seq", JInt(5)),
    Obj1("status", JStr("OK")),
    Obj1("bogus", JInt(1))
}

Timeouts == 0..MaxTimeout

\* what the system under test and other publishers put on the channel
Inbound == {
    Parts(2, <<"Ping">>, Payload(<<Varint(1, I64(5))>>, FALSE)),
    Parts(2, <<"Ping">>, Payload(<<Varint(2, Zero), Varint(4, Zero)>>, FALSE)),
    Parts(2, <<"Ping">>, Payload(<<Varint(1, I64(5))>>, TRUE)),
    Parts(2, <<"Pong">>, Payload(<<Varint(1, I64(5)), Varint(2, Zero)>>, FALSE)),
    Parts(2, <<"Nope">>, Payload(<<Varint(1, I64(5))>>, FALSE)),
    Parts(1, <<"Ping">>, Payload(<<>>, FALSE))
}

\* Broker::send_message, up to the write to the socket: the message to
\* publish, or the codec error
SendParts(name, json) ==
    LET dm == build_from_json(name, json)
    IN  IF ~dm.ok THEN Fail(Parts(0, <<>>, Payload(<<>>, FALSE)), dm.err)
        ELSE Ok(Parts(2, name, encode_message(dm.val).val))

\* LoopBody with the partial match left out: any decodable message of the
\* awaited topic is returned
LoopBody_NoMatch(parts, name, exp) ==
    LET topic == from_utf8_lossy(parts.topic)
        dm == decode_message(Prefix \o topic, parts.payload)
    IN  IF parts.nparts # 2 \/ ~dm.ok \/ topic # name THEN [ret |-> FALSE, res |-> NoResult]
        ELSE [ret |-> TRUE, res |-> Ok(to_json_value(dm.val))]

\* LoopBody with `?` on decode_message instead of `continue`
LoopBody_DecodeAborts(parts, name, exp) ==
    LET topic == from_utf8_lossy(parts.topic)
        dm == decode_message(Prefix \o topic, parts.payload)
        got_json == to_json_value(dm.val)
    IN  IF parts.nparts # 2 THEN [ret |-> FALSE, res |-> NoResult]
        ELSE IF ~dm.ok THEN [ret |-> TRUE, res |-> Fail(JNull, dm.err)]
        ELSE IF topic # name THEN [ret |-> FALSE, res |-> NoResult]
        ELSE IF json_partial_match(normalize_json_for_comparison(exp, dm.val).val, got_json)
        THEN [ret |-> TRUE, res |-> Ok(got_json)]
        ELSE [ret |-> FALSE, res |-> NoResult]

\* LoopBody without the comparison of the topic with message_name
LoopBody_NoTopicCheck(parts, name, exp) ==
    LET topic == from_utf8_lossy(parts.topic)
        dm == decode_message(Prefix \o topic, parts.payload)
        got_json == to_json_value(dm.val)
    IN  IF parts.nparts # 2 \/ ~dm.ok THEN [ret |-> FALSE, res |-> NoResult]
        ELSE IF json_partial_match(normalize_json_for_comparison(exp, dm.val).val, got_json)
        THEN [ret |-> TRUE, res |-> Ok(got_json)]
        ELSE [ret |-> FALSE, res |-> NoResult]

\* LoopBody that checks the expectation against the schema as send_message
\* checks a body, and fails on a key the schema does not define
LoopBody_Validates(parts, name, exp) ==
    LET topic == from_utf8_lossy(parts.topic)
        dm == decode_message(Prefix \o topic, parts.payload)
        got_json == to_json_value(dm.val)
        undefined == {k \in DOMAIN exp.o : ~HasFieldNamed(DescOf(dm.val), k)}
    IN  IF parts.nparts # 2 \/ ~dm.ok \/ topic # name THEN [ret |-> FALSE, res |-> NoResult]
        ELSE IF undefined # {}
        THEN [ret |-> TRUE, res |-> Fail(JNull, Err("unknown field", <<CHOOSE k \in undefined : TRUE>> \o name, ""))]
        ELSE IF json_partial_match(normalize_json_for_comparison(exp, dm.val).val, got_json)
        THEN [ret |-> TRUE, res |-> Ok(got_json)]
        ELSE [ret |-> FALSE, res |-> NoResult]

\* one pass through the body of the loop of Broker::expect_message for the
\* message `parts` that recv_multipart returned: `ret` when the pass
\* returns from the call (with `res`), otherwise it continues the loop
LoopBody(parts, name, exp) ==
    LET continue == [ret |-> FALSE, res |-> NoResult]
        topic == from_utf8_lossy(parts.topic)
        msg_name == Prefix \o topic
        dm == decode_message(msg_name, parts.payload)
        got_json == to_json_value(dm.val)
        normalized_expected == normalize_json_for_comparison(exp, dm.val)
    IN  IF parts.nparts # 2 THEN continue
        ELSE IF ~dm.ok THEN continue
        ELSE IF topic # name THEN continue
        ELSE IF ~normalized_expected.ok THEN [ret |-> TRUE, res |-> Fail(JNull, normalized_expected.err)]
        ELSE IF json_partial_match(normalized_expected.val, got_json) THEN [ret |-> TRUE, res |-> Ok(got_json)]
        ELSE continue

\* an entry of the arrival log
Arrival(m, by, ret) == [msg |-> m, by |-> by, ret |-> ret]

\* the position in the log of the message at the head of the receive queue
Oldest == arrivals - Len(sub_sock) + 1

InitBroker ==
    /\ pc = "idle"
    /\ op = "none"
    /\ message_name = <<>>
    /\ body = JNull
    /\ expected = JNull
    /\ timeout_ms = 0
    /\ result = NoResult
    /\ pub_sock = <<>>
    /\ sub_sock = <<>>
    /\ waited = 0
    /\ consumed = <<>>
    /\ arrivals = 0
    /\ calls = 0
    /\ elapsed = 0
    /\ log = <<>>

Init == InitBroker /\ pool = Pool /\ fn_in = <<>> /\ fn_out = <<>>

\* Broker::send_message, called by the step "I send message <name>"
SendMessage(name, json, sent) ==
    /\ pc = "idle"
    /\ calls < MaxCalls
    /\ calls' = calls + 1
    /\ op' = "send"
    /\ message_name' = name
    /\ body' = json
    /\ LET m == SendParts(name, json)
       IN  IF ~m.ok THEN result' = Fail(JNull, m.err) /\ pub_sock' = pub_sock
           ELSE IF ~sent THEN result' = Fail(JNull, SendErr) /\ pub_sock' = pub_sock
           ELSE result' = Ok(JNull) /\ pub_sock' = Append(pub_sock, m.val)
    /\ expected' = JNull
    /\ timeout_ms' = 0
    /\ waited' = 0
    /\ elapsed' = 0
    /\ consumed' = <<>>
    /\ UNCHANGED <<pc, sub_sock, arrivals, log, fnVars, pool>>

\* Broker::expect_message up to the loop: set_rcvtimeo, which may fail
ExpectStart(name, exp, t, set) ==
    /\ pc = "idle"
    /\ calls < MaxCalls
    /\ calls' = calls + 1
    /\ op' = "expect"
    /\ message_name' = name
    /\ body' = JNull
    /\ expected' = exp
    /\ timeout_ms' = t
    /\ consumed' = <<>>
    /\ waited' = 0
    /\ elapsed' = 0
    /\ IF set THEN pc' = "recv" /\ result' = NoResult
       ELSE pc' = "idle" /\ result' = Fail(JNull, RcvtimeoErr)
    /\ UNCHANGED <<pub_sock, sub_sock, arrivals, log, fnVars, pool>>

\* recv_multipart blocks while nothing is queued
Tick ==
    /\ pc = "recv"
    /\ sub_sock = <<>>
    /\ waited < timeout_ms
    /\ waited' = waited + 1
    /\ elapsed' = elapsed + 1
    /\ UNCHANGED <<pc, op, message_name, body, expected, timeout_ms, result, pub_sock, sub_sock, consumed, arrivals, calls, log, fnVars, pool>>

\* RecvTimeout that does not wait for the window to elapse
RecvTimeout_Early ==
    /\ pc = "recv"
    /\ sub_sock = <<>>
    /\ pc' = "idle"
    /\ result' = Fail(JNull, TimeoutErr(message_name))
    /\ UNCHANGED <<op, message_name, body, expected, timeout_ms, pub_sock, sub_sock, waited, consumed, arrivals, calls, elapsed, log, fnVars, pool>>

\* recv_multipart returns EAGAIN once it has waited timeout_ms
RecvTimeout ==
    /\ pc = "recv"
    /\ sub_sock = <<>>
    /\ waited = timeout_ms
    /\ pc' = "idle"
    /\ result' = Fail(JNull, TimeoutErr(message_name))
    /\ UNCHANGED <<op, message_name, body, expected, timeout_ms, pub_sock, sub_sock, waited, consumed, arrivals, calls, elapsed, log, fnVars, pool>>

\* recv_multipart fails with another error
RecvError ==
    /\ pc = "recv"
    /\ pc' = "idle"
    /\ result' = Fail(JNull, RecvErr)
    /\ UNCHANGED <<op, message_name, body, expected, timeout_ms, pub_sock, sub_sock, waited, consumed, arrivals, calls, elapsed, log, fnVars, pool>>

\* RecvMessage that takes the newest queued message instead of the oldest
RecvMessage_Newest ==
    /\ pc = "recv"
    /\ sub_sock # <<>>
    /\ sub_sock' = SubSeq(sub_sock, 1, Len(sub_sock) - 1)
    /\ consumed' = Append(consumed, Last(sub_sock))
    /\ LET r == LoopBody(Last(sub_sock), message_name, expected)
       IN  /\ IF r.ret THEN pc' = "idle" /\ result' = r.res /\ waited' = waited
              ELSE pc' = "recv" /\ result' = result /\ waited' = 0
           /\ log' = [log EXCEPT ![arrivals] = Arrival(@.msg, calls, r.ret /\ r.res.ok)]
    /\ UNCHANGED <<op, message_name, body, expected, timeout_ms, pub_sock, arrivals, calls, elapsed, fnVars, pool>>

\* RecvMessage that puts a message it does not return back on the queue
RecvMessage_Requeue ==
    /\ pc = "recv"
    /\ sub_sock # <<>>
    /\ consumed' = Append(consumed, Head(sub_sock))
    /\ LET r == LoopBody(Head(sub_sock), message_name, expected)
       IN  IF r.ret
           THEN /\ pc' = "idle" /\ result' = r.res /\ waited' = waited
                /\ sub_sock' = Tail(sub_sock)
                /\ log' = [log EXCEPT ![Oldest] = Arrival(@.msg, calls, r.res.ok)]
           ELSE /\ pc' = "recv" /\ result' = result /\ waited' = 0
                /\ sub_sock' = Append(Tail(sub_sock), Head(sub_sock))
                /\ log' = log
    /\ UNCHANGED <<op, message_name, body, expected, timeout_ms, pub_sock, arrivals, calls, elapsed, fnVars, pool>>

\* RecvMessage under one deadline for the whole call: a discarded message
\* does not restart the wait
RecvMessage_KeepsWindow ==
    /\ pc = "recv"
    /\ sub_sock # <<>>
    /\ sub_sock' = Tail(sub_sock)
    /\ consumed' = Append(consumed, Head(sub_sock))
    /\ LET r == LoopBody(Head(sub_sock), message_name, expected)
       IN  /\ IF r.ret THEN pc' = "idle" /\ result' = r.res ELSE pc' = "recv" /\ result' = result
           /\ log' = [log EXCEPT ![Oldest] = Arrival(@.msg, calls, r.ret /\ r.res.ok)]
    /\ UNCHANGED <<op, message_name, body, expected, timeout_ms, pub_sock, waited, arrivals, calls, elapsed, fnVars, pool>>

\* recv_multipart returns the next queued message and the loop body runs
RecvMessage ==
    /\ pc = "recv"
    /\ sub_sock # <<>>
    /\ sub_sock' = Tail(sub_sock)
    /\ consumed' = Append(consumed, Head(sub_sock))
    /\ LET r == LoopBody(Head(sub_sock), message_name, expected)
       IN  /\ IF r.ret THEN pc' = "idle" /\ result' = r.res /\ waited' = waited
              ELSE pc' = "recv" /\ result' = result /\ waited' = 0
           /\ log' = [log EXCEPT ![Oldest] = Arrival(@.msg, calls, r.ret /\ r.res.ok)]
    /\ UNCHANGED <<op, message_name, body, expected, timeout_ms, pub_sock, arrivals, calls, elapsed, fnVars, pool>>

\* the system under test publishes a message that reaches the SUB socket
Inject(m) ==
    /\ arrivals < MaxArrivals
    /\ arrivals' = arrivals + 1
    /\ sub_sock' = Append(sub_sock, m)
    /\ log' = Append(log, Arrival(m, 0, FALSE))
    /\ UNCHANGED <<pc, op, message_name, body, expected, timeout_ms, result, pub_sock, waited, consumed, calls, elapsed, fnVars, pool>>

\* a message this broker published is forwarded to its own SUB socket
Forward(i) ==
    /\ arrivals < MaxArrivals
    /\ arrivals' = arrivals + 1
    /\ sub_sock' = Append(sub_sock, pub_sock[i])
    /\ log' = Append(log, Arrival(pub_sock[i], 0, FALSE))
    /\ UNCHANGED <<pc, op, message_name, body, expected, timeout_ms, result, pub_sock, waited, consumed, calls, elapsed, fnVars, pool>>

Next ==
    \/ \E name \in TypeNames, json \in SendBodies, sent \in BOOLEAN : SendMessage(name, json, sent)
    \/ \E name \in TypeNames, exp \in Expectations, t \in Timeouts, set \in BOOLEAN : ExpectStart(name, exp, t, set)
    \/ Tick
    \/ RecvTimeout
    \/ RecvError
    \/ RecvMessage
    \/ \E m \in Inbound : Inject(m)
    \/ \E i \in 1..Len(pub_sock) : Forward(i)

Spec == Init /\ [][Next]_vars

\* recv_multipart takes the oldest queued message: the step RecvMessage, as it
\* shows on the receive queue
Receive == pc = "recv" /\ sub_sock # <<>> /\ sub_sock' = Tail(sub_sock)

\* The broker with the progress its scheduling gives: time passes while a
\* receive is blocked, recv_multipart returns EAGAIN when the window has
\* elapsed, and it returns a message that is queued.  A transport failure may
\* or may not happen.
SpecLive == Spec /\ WF_vars(Tick) /\ WF_vars(RecvTimeout) /\ WF_sub_sock(Receive)

----------------------------------------------------------------------------
(* Properties of expect_message and send_message.                          *)

ExpectReturned == op = "expect" /\ pc = "idle"

\* what the loop body derives from a received message
Topic(m) == from_utf8_lossy(m.topic)
Decoded(m) == decode_message(Prefix \o Topic(m), m.payload)
Text(m) == to_json_value(Decoded(m).val)
Decodable(m) == m.nparts = 2 /\ Decoded(m).ok
Undecodable(m) == m.nparts = 2 /\ ~Decoded(m).ok
PartialMatches(m, exp) ==
    json_partial_match(normalize_json_for_comparison(exp, Decoded(m).val).val, Text(m))
Matches(m, name, exp) == Decodable(m) /\ Topic(m) = name /\ PartialMatches(m, exp)

\* C1: whenever expect returns a value, the value is the textual form of the
\* message received last during this call, that message has the awaited topic,
\* its payload decoded against the prefixed schema, and the normalized
\* expectation partial-matches the value.
C1_ReturnsReceivedMatch ==
    (ExpectReturned /\ result.ok) =>
        /\ consumed # <<>>
        /\ Matches(Last(consumed), message_name, expected)
        /\ result.val = Text(Last(consumed))

\* C1 witness: expect returned a value after discarding an earlier message
C1_Witness == ExpectReturned /\ result.ok /\ Len(consumed) = 2 /\ expected # Obj0

\* C2: when expect has returned, no message with the awaited topic was
\* received during the call and the transport did not fail, the result is the
\* timeout error naming the awaited type; and the timeout is raised only by a
\* receive that has waited the whole of timeout_ms with nothing queued.
C2_NoTopicReceived == \A i \in 1..Len(consumed) : Topic(consumed[i]) # message_name

C2_TimeoutNamesType ==
    /\ [](  (ExpectReturned /\ C2_NoTopicReceived /\ result.err \notin {RecvErr, RcvtimeoErr})
            => (~result.ok /\ result.err = TimeoutErr(message_name) /\ waited = timeout_ms) )
    /\ [][ (pc = "recv" /\ result'.err.msg = "timeout waiting for")
            => (waited = timeout_ms /\ sub_sock = <<>> /\ consumed' = consumed /\ result'.err.arg = message_name) ]_vars

\* C2 witness: a timeout after the window was restarted by a foreign message
C2_Witness ==
    /\ ExpectReturned /\ result.err = TimeoutErr(message_name)
    /\ timeout_ms = MaxTimeout /\ consumed # <<>> /\ C2_NoTopicReceived

\* C3: a received message that does not decode is consumed without ending
\* the call or setting an error, and a matching message is returned whatever
\* was discarded before it.
C3_DecodeErrorsSkipped ==
    /\ [][ (pc = "recv" /\ consumed' # consumed /\ Undecodable(Head(sub_sock)))
            => (pc' = "recv" /\ result' = NoResult /\ sub_sock' = Tail(sub_sock)) ]_vars
    /\ [][ (pc = "recv" /\ consumed' # consumed /\ Matches(Head(sub_sock), message_name, expected))
            => (pc' = "idle" /\ result' = Ok(Text(Head(sub_sock)))) ]_vars

\* C3 witness: a value was returned right after a message with the awaited
\* topic and a malformed payload was discarded
C3_Witness ==
    /\ ExpectReturned /\ result.ok /\ Len(consumed) = 2
    /\ Undecodable(consumed[1]) /\ consumed[1].payload.bad
    /\ Topic(consumed[1]) = message_name

\* C4: a received message whose topic is not the awaited one is discarded and
\* the loop goes on to the next receive.
C4_WrongTopicDiscarded ==
    [][ (pc = "recv" /\ consumed' # consumed /\ Topic(Head(sub_sock)) # message_name)
         => (pc' = "recv" /\ result' = NoResult /\ waited' = 0 /\ sub_sock' = Tail(sub_sock)) ]_vars

\* C4 witness: a message on another topic that decodes and whose text
\* partial-matches the expectation was consumed, and the call is still waiting
C4_Witness ==
    /\ op = "expect" /\ pc = "recv" /\ consumed # <<>> /\ expected # Obj0
    /\ Topic(Last(consumed)) # message_name
    /\ Decodable(Last(consumed)) /\ PartialMatches(Last(consumed), expected)

\* C5: the only failures of expect are the timeout and a transport error, and
\* each of them carries the awaited type name.
C5_FailuresCarryTypeName ==
    (ExpectReturned /\ ~result.ok) =>
        /\ result.err.msg \in {"timeout waiting for", "zmq error"}
        /\ result.err.arg = message_name

\* a send body that the schema of `name` does not admit, read off the
\* descriptor: unknown type, unknown member (also one level down), a value of
\* the wrong JSON type, invalid base64, unknown enum name
BadValue(f, v) ==
    CASE f.kind = "bool" -> v.t # "bool"
      [] f.kind \in {"int32", "uint32"} -> v.t # "int"
      [] f.kind = "double" -> v.t \notin {"int", "float"}
      [] f.kind = "string" -> v.t # "string"
      [] f.kind = "bytes" -> v.t # "string" \/ ~Base64Valid(v.s)
      [] f.kind = "enum" -> v.t \notin {"string", "int"} \/ (v.t = "string" /\ ~HasEnumName(f.enum, v.s))
      [] f.kind = "message" ->
            \/ v.t # "object"
            \/ \E k \in DOMAIN v.o : ~HasFieldNamed(message_desc(f.msg).val, k)

UndefinedKey(name, json, k) ==
    message_desc(name).ok /\ json.t = "object" /\ k \in DOMAIN json.o /\ ~HasFieldNamed(message_desc(name).val, k)

BadBody(name, json) ==
    \/ ~message_desc(name).ok
    \/ /\ json.t = "object"
       /\ \E k \in DOMAIN json.o :
            \/ UndefinedKey(name, json, k)
            \/ BadValue(get_field_by_name(message_desc(name).val, k), json.o[k])

\* the first member in iteration order is one the schema does not define
FirstKeyUndefined(name, json) ==
    \E k \in DOMAIN json.o : UndefinedKey(name, json, k) /\ \A k2 \in DOMAIN json.o : KeyIndex(k) <= KeyIndex(k2)

SendStep == op' = "send" /\ calls' = calls + 1

\* C6: a send whose body the schema does not admit fails with the codec's
\* error and leaves the published messages as they were; a body whose member
\* is not defined by the schema fails with "unknown field".
C6_FailedSendPublishesNothing ==
    /\ [][ (SendStep /\ BadBody(message_name', body'))
            => (/\ pub_sock' = pub_sock
                /\ ~result'.ok
                /\ result'.err.msg \in {"message not found", "unknown field", "expected i32", "expected u32",
                                        "expected bool", "expected f64", "expected string", "expected object",
                                        "expected base64 string for bytes", "invalid base64", "unknown enum",
                                        "enum must be string or int"}
                /\ pc' = "idle" /\ calls' = calls + 1) ]_vars
    /\ [][ (SendStep /\ FirstKeyUndefined(message_name', body'))
            => (pub_sock' = pub_sock /\ result'.err.msg = "unknown field") ]_vars
    /\ [][ (SendStep /\ ~result'.ok) => pub_sock' = pub_sock ]_vars

\* C6 witness: a send with a member the schema does not define has failed
\* after an earlier send was published
C6_Witness ==
    /\ op = "send" /\ ~result.ok /\ result.err.msg = "unknown field"
    /\ UndefinedKey(message_name, body, "bogus") /\ Len(pub_sock) = 1

\* C7: a message published by send(type_name, body) and delivered to a
\* waiting expect(type_name, body, timeout) is returned by it, as a value
\* equal to body.
C7_Delivered ==
    /\ op = "expect" /\ consumed # <<>>
    /\ SendParts(message_name, expected).ok
    /\ Last(consumed) = SendParts(message_name, expected).val
    /\ \E i \in 1..Len(pub_sock) : pub_sock[i] = Last(consumed)

C7_EndToEnd == C7_Delivered => (pc = "idle" /\ result = Ok(expected))

----------------------------------------------------------------------------
(* The pure functions, applied to inputs drawn from bounded universes.     *)

MaxLen == 2

RECURSIVE SeqsUpTo(_, _)
SeqsUpTo(S, n) ==
    IF n = 0 THEN {<<>>}
    ELSE SeqsUpTo(S, n - 1) \cup {Append(q, x) : q \in SeqsUpTo(S, n - 1), x \in S}

ObjectsOver(K, S) == UNION {[D -> S] : D \in SUBSET K}

Scalars == {JInt(1), JInt(2)}

\* scalars, arrays of scalars, objects of scalars
Flat == Scalars \cup {JArr(q) : q \in SeqsUpTo(Scalars, MaxLen)} \cup {JObj(o) : o \in ObjectsOver({"a", "b"}, Scalars)}

\* ... and one more level of nesting
MatchValues ==
    Flat \cup {JArr(<<v>>) : v \in Flat} \cup {Obj1("a", v) : v \in Flat}
         \cup {JArr(<<v, w>>) : v \in Flat, w \in Scalars}
         \cup {Obj2("a", v, "b", w) : v \in Flat, w \in Scalars}

InitMatch ==
    /\ InitBroker
    /\ pool = Pool
    /\ fn_in \in [e : MatchValues, a : MatchValues]
    /\ fn_out = [done |-> FALSE, val |-> FALSE]

\* json_partial_match(expected, actual) is called
ApplyMatch ==
    /\ ~fn_out.done
    /\ fn_out' = [done |-> TRUE, val |-> json_partial_match(fn_in.e, fn_in.a)]
    /\ UNCHANGED <<brokerVars, pool, fn_in>>

NextMatch == ApplyMatch

SpecMatch == InitMatch /\ [][NextMatch]_vars

\* the definition of partial match the specification gives
Elements(q) == {q[i] : i \in 1..Len(q)}

RECURSIVE RefMatch(_, _)
RefMatch(e, a) ==
    CASE e.t = "object" /\ a.t = "object" ->
            DOMAIN e.o \subseteq DOMAIN a.o /\ \A k \in DOMAIN e.o : RefMatch(e.o[k], a.o[k])
      [] e.t = "array" /\ a.t = "array" ->
            \A x \in Elements(e.a) : \E y \in Elements(a.a) : RefMatch(x, y)
      [] OTHER -> e = a

One == JInt(1)
Two == JInt(2)

\* C8: json_partial_match agrees with the specification's definition on every
\* pair of values of the universe, and gives the stated answers on the
\* specification's examples.
C8_PartialMatchIsReference ==
    fn_out.done =>
        /\ fn_out.val = RefMatch(fn_in.e, fn_in.a)
        /\ (fn_in = [e |-> Obj1("a", One), a |-> Obj2("a", One, "b", Two)] => fn_out.val)
        /\ (fn_in = [e |-> Obj1("a", Two), a |-> Obj2("a", One, "b", Two)] => ~fn_out.val)
        /\ (fn_in = [e |-> Obj1("a", JArr(<<One>>)), a |-> Obj1("a", JArr(<<One, Two>>))] => fn_out.val)
        /\ (fn_in = [e |-> Obj1("a", JArr(<<One, One>>)), a |-> Obj1("a", JArr(<<One>>))] => fn_out.val)
        /\ (fn_in = [e |-> JArr(<<One>>), a |-> JArr(<<Two, One>>)] => fn_out.val)
        /\ (fn_in.e.t # fn_in.a.t => ~fn_out.val)
        /\ (fn_in.e.t = "int" => fn_out.val = (fn_in.e = fn_in.a))

\* C8 witness: a duplicated expected element was matched by one actual element
C8_Witness ==
    /\ fn_out.done /\ fn_out.val
    /\ fn_in = [e |-> Obj1("a", JArr(<<One, One>>)), a |-> Obj1("a", JArr(<<One>>))]

----------------------------------------------------------------------------
NormKeys == {"status", "seq", "inner", "bogus"}

NormMembers == {JStr("OK"), JStr("ERROR"), JStr("BOGUS"), JInt(1), Obj1("code", JStr("OK")), JArr(<<JStr("OK")>>)}

NormExpectations == {JObj(o) : o \in ObjectsOver(NormKeys, NormMembers)} \cup {JStr("OK"), JArr(<<JStr("OK")>>), JNull}

NormMessages == {Prefix \o <<"Ping">>, Prefix \o <<"Pong">>}

InitNorm ==
    /\ InitBroker
    /\ pool = Pool
    /\ fn_in \in [exp : NormExpectations, msg : NormMessages]
    /\ fn_out = [done |-> FALSE, res |-> Ok(JNull)]

\* normalize_json_for_comparison(expected, message) is called
ApplyNorm ==
    /\ ~fn_out.done
    /\ fn_out' = [done |-> TRUE,
                  res |-> normalize_json_for_comparison(fn_in.exp, NewMessage(message_desc(fn_in.msg).val))]
    /\ UNCHANGED <<brokerVars, pool, fn_in>>

NextNorm == ApplyNorm

SpecNorm == InitNorm /\ [][NextNorm]_vars

\* the enum fields of the two messages and the enum's table, written out
RefEnumFields == {"status"}
RefStatus == [n \in {"OK", "ERROR"} |-> IF n = "OK" THEN 0 ELSE 1]

\* C9: normalization never fails; a value that is not an object comes back as
\* it is; an object comes back with the same keys, a top-level enum field
\* given by a known name replaced by the number, every other member unchanged.
C9_NormalizationShallowTotal ==
    fn_out.done =>
        LET exp == fn_in.exp
            out == fn_out.res.val
        IN  /\ fn_out.res.ok
            /\ exp.t # "object" => out = exp
            /\ exp.t = "object" =>
                /\ out.t = "object"
                /\ DOMAIN out.o = DOMAIN exp.o
                /\ \A k \in DOMAIN exp.o :
                     IF k \in RefEnumFields /\ exp.o[k].t = "string" /\ exp.o[k].s \in DOMAIN RefStatus
                     THEN out.o[k] = JInt(RefStatus[exp.o[k].s])
                     ELSE out.o[k] = exp.o[k]

\* C9 witness: one call resolved a top-level name and passed through an
\* unknown name, a nested name and a key the schema does not define
C9_Witness ==
    /\ fn_out.done /\ fn_in.exp.t = "object" /\ DOMAIN fn_in.exp.o = NormKeys
    /\ fn_in.exp.o["status"] = JStr("ERROR") /\ fn_out.res.val.o["status"] = JInt(1)
    /\ fn_in.exp.o["inner"] = Obj1("code", JStr("OK")) /\ fn_out.res.val.o["inner"] = Obj1("code", JStr("OK"))
    /\ fn_in.exp.o["seq"] = JStr("BOGUS") /\ fn_out.res.val.o["bogus"] = JArr(<<JStr("OK")>>)

----------------------------------------------------------------------------
\* the enum fields of the message m was decoded as, with the enum's names
EnumCases(m) ==
    LET desc == DescOf(Decoded(m).val)
    IN  {<<desc.fields[i], Enums[desc.fields[i].enum][j]>> :
            i \in {x \in 1..Len(desc.fields) : desc.fields[x].kind = "enum"}, j \in 1..2}

\* C10: an expectation that gives an enum field by name matches, and expect
\* returns, a received message of the awaited topic whose field holds the
\* number of that name.
C10_Received ==
    /\ op = "expect" /\ consumed # <<>>
    /\ Decodable(Last(consumed)) /\ Topic(Last(consumed)) = message_name
    /\ \E c \in EnumCases(Last(consumed)) :
         /\ expected = Obj1(c[1].name, JStr(c[2].name))
         /\ c[1].name \in DOMAIN Decoded(Last(consumed)).val.fields
         /\ Decoded(Last(consumed)).val.fields[c[1].name] = PbEnumNumber(I64(c[2].number))

C10_EnumNameMatchesNumber == C10_Received => (pc = "idle" /\ result = Ok(Text(Last(consumed))))

\* the case of C10 in which the code does as claimed: the field tracks presence
C10_PresenceCase ==
    /\ C10_Received /\ pc = "idle" /\ result = Ok(Text(Last(consumed)))
    /\ "status" \in DOMAIN result.val.o

----------------------------------------------------------------------------
(* The codec, applied to a type name and a textual body: build_from_json,  *)
(* then encode_message and decode_message of what was built, and           *)
(* to_json_value of what was built.                                        *)

\* integers at the edges of the 32-bit and 64-bit ranges
I32Max == Big(0, 1, Limb - 1)
I32Min == Big(-1, Limb - 2, 0)
TwoTo31 == Big(0, 2, 0)
BelowI32Min == Big(-1, Limb - 3, Limb - 1)
U32Max == Big(0, 3, Limb - 1)
TwoTo32 == Big(0, 4, 0)
TwoTo32Plus1 == Big(0, 4, 1)
TwoTo63 == Big(8, 0, 0)

CodecInts == {Zero, I64(5), I64(-1), I32Max, I32Min, TwoTo31, BelowI32Min, U32Max, TwoTo32, TwoTo32Plus1, TwoTo63}

CodecValues ==
    {JNum(n) : n \in CodecInts}
        \cup {JFloat(I64(5)), JBool(TRUE), JBool(FALSE), JNull, JStr("OK"), JStr("ERROR"), JStr("BOGUS"),
              JStr(""), JStr("aGk="), JArr(<<JInt(1)>>), Obj0,
              Obj1("n", JInt(5)), Obj1("n", JInt(0)), Obj1("n", JNum(TwoTo32)), Obj1("code", JStr("ERROR")),
              Obj1("code", JInt(1))}

CodecKeys == {"seq", "status", "inner", "opt", "data", "ratio", "ack", "n", "code", "text", "bogus"}

CodecBodies ==
    {Obj1(k, v) : k \in CodecKeys, v \in CodecValues}
        \cup {Obj0, JNull, JArr(<<>>),
              Obj2("seq", JInt(5), "status", JInt(1)),
              Obj2("seq", JInt(0), "opt", JInt(0)),
              Obj2("inner", Obj1("n", JInt(5)), "status", JInt(-1)),
              Obj2("inner", Obj0, "data", JStr("aGk=")),
              Obj2("status", JInt(0), "ack", JBool(FALSE)),
              Obj2("bogus", JInt(1), "seq", JInt(5))}

CodecNames == {<<"Ping">>, <<"Pong">>, Prefix \o <<"Pong">>, <<"Inner">>, <<"Nope">>}

NoBytes == Payload(<<>>, FALSE)

InitCodec ==
    /\ InitBroker
    /\ pool = Pool
    /\ fn_in \in [name : CodecNames, json : CodecBodies]
    /\ fn_out = [stage |-> "in", built |-> Fail(NoMsg, NoErr), bytes |-> Fail(NoBytes, NoErr),
                 decoded |-> Fail(NoMsg, NoErr), text |-> JNull]

\* build_from_json(name, json) is called
ApplyBuild ==
    /\ fn_out.stage = "in"
    /\ fn_out' = [fn_out EXCEPT !.stage = "built", !.built = build_from_json(fn_in.name, fn_in.json)]
    /\ UNCHANGED <<brokerVars, pool, fn_in>>

\* encode_message is called on the message that was built
ApplyEncode ==
    /\ fn_out.stage = "built"
    /\ fn_out.built.ok
    /\ fn_out' = [fn_out EXCEPT !.stage = "encoded", !.bytes = encode_message(fn_out.built.val)]
    /\ UNCHANGED <<brokerVars, pool, fn_in>>

\* decode_message(name, bytes) is called on the bytes that were encoded
ApplyDecode ==
    /\ fn_out.stage = "encoded"
    /\ fn_out.bytes.ok
    /\ fn_out' = [fn_out EXCEPT !.stage = "decoded", !.decoded = decode_message(fn_in.name, fn_out.bytes.val)]
    /\ UNCHANGED <<brokerVars, pool, fn_in>>

\* to_json_value is called on the message that was built
ApplyText ==
    /\ fn_out.stage = "built"
    /\ fn_out.built.ok
    /\ fn_out' = [fn_out EXCEPT !.stage = "text", !.text = to_json_value(fn_out.built.val)]
    /\ UNCHANGED <<brokerVars, pool, fn_in>>

NextCodec == ApplyBuild \/ ApplyEncode \/ ApplyDecode \/ ApplyText

SpecCodec == InitCodec /\ [][NextCodec]_vars

\* two messages agree field for field: the same fields are present
\* (has_field), with the same values, and neither carries unknown fields
RECURSIVE SameFields(_, _)
SameValue(x, y) == IF x.k = "Message" THEN y.k = "Message" /\ SameFields(x.m, y.m) ELSE x = y

SameFields(a, b) ==
    /\ a.desc = b.desc
    /\ a.unknown = <<>> /\ b.unknown = <<>>
    /\ \A i \in 1..Len(DescOf(a).fields) :
         LET f == DescOf(a).fields[i]
         IN  /\ has_field(a, f) = has_field(b, f)
             /\ has_field(a, f) => SameValue(a.fields[f.name], b.fields[f.name])

\* C11: for every message v that build_from_json returns, encode_message(v)
\* succeeds and decode_message of the bytes under the same type name succeeds
\* and agrees with v field for field: the fields present in v are present with
\* the same value, the fields absent in v are absent.
C11_BinaryRoundTrip ==
    /\ fn_out.stage = "encoded" => fn_out.bytes.ok /\ ~fn_out.bytes.val.bad
    /\ fn_out.stage = "decoded" =>
         /\ fn_out.decoded.ok
         /\ SameFields(fn_out.built.val, fn_out.decoded.val)

\* C11 witness: a message with a nested message and a negative enum number
\* came back from the wire
C11_Witness ==
    /\ fn_out.stage = "decoded" /\ fn_out.decoded.ok
    /\ fn_in = [name |-> <<"Ping">>, json |-> Obj2("inner", Obj1("n", JInt(5)), "status", JInt(-1))]
    /\ fn_out.decoded.val.fields["inner"].m.fields["n"] = PbU32(I64(5))
    /\ fn_out.decoded.val.fields["status"] = PbEnumNumber(I64(-1))

\* the descriptor the name of the call resolves to
CodecDesc == message_desc(fn_in.name).val

\* t gives no enum field by symbolic name, at any depth
RECURSIVE SymbolicFree(_, _)
SymbolicFree(desc, t) ==
    \A k \in DOMAIN t.o :
        HasFieldNamed(desc, k) =>
            LET f == get_field_by_name(desc, k)
            IN  CASE f.kind = "enum" -> t.o[k].t # "string"
                  [] f.kind = "message" -> (t.o[k].t = "object" => SymbolicFree(message_desc(f.msg).val, t.o[k]))
                  [] OTHER -> TRUE

\* C12: to_json_value(build_from_json(name, t)) = t for every object t built
\* from fields of the schema and numeric enum values (same keys, same values),
\* and an enum field that t gives by name comes back as the enum's number.
C12_TextualRoundTrip ==
    (fn_out.stage = "text" /\ fn_in.json.t = "object") =>
        /\ SymbolicFree(CodecDesc, fn_in.json) => fn_out.text = fn_in.json
        /\ \A k \in DOMAIN fn_in.json.o :
             LET f == get_field_by_name(CodecDesc, k)
             IN  (f.kind = "enum" /\ fn_in.json.o[k].t = "string") =>
                    /\ k \in DOMAIN fn_out.text.o
                    /\ fn_out.text.o[k] = JInt(get_value_by_name(f.enum, fn_in.json.o[k].s))

\* the part of C12 the code does satisfy: no key is added, and a member that
\* comes back holds a number when it was given as an enum name
C12_NoKeyAdded ==
    (fn_out.stage = "text" /\ fn_in.json.t = "object") =>
        /\ DOMAIN fn_out.text.o \subseteq DOMAIN fn_in.json.o
        /\ \A k \in DOMAIN fn_out.text.o :
             get_field_by_name(CodecDesc, k).kind = "enum" => fn_out.text.o[k].t = "int"

\* the ranges of the 32-bit kinds
InI32(n) == (n.h = 0 /\ n.q < 2) \/ (n.h = -1 /\ n.q >= Limb - 2)
InU32(n) == n.h = 0 /\ n.q < 4

\* v is of the kind of the field and fits its width
Admits(kind, v) ==
    CASE kind = "bool" -> v.t = "bool"
      [] kind = "int32" -> v.t = "int" /\ InI32(v.n)
      [] kind = "uint32" -> v.t = "int" /\ InU32(v.n)
      [] kind = "double" -> v.t \in {"int", "float"}

Numeric(desc, k) == HasFieldNamed(desc, k) /\ get_field_by_name(desc, k).kind \in {"bool", "int32", "uint32", "double"}

\* C15: for a bool, integer or float field, build_from_json fails with a type
\* mismatch when the value is not of the field's kind or does not fit the
\* field's width, and when it succeeds the stored number is the textual number.
C15_RangeChecked ==
    (fn_out.stage = "built" /\ message_desc(fn_in.name).ok /\ fn_in.json.t = "object") =>
        /\ \A k \in DOMAIN fn_in.json.o :
             (Numeric(CodecDesc, k) /\ ~Admits(get_field_by_name(CodecDesc, k).kind, fn_in.json.o[k]))
                => ~fn_out.built.ok
        /\ \A k \in DOMAIN fn_in.json.o :
             (Numeric(CodecDesc, k) /\ DOMAIN fn_in.json.o = {k}
                 /\ ~Admits(get_field_by_name(CodecDesc, k).kind, fn_in.json.o[k]))
                => fn_out.built.err.msg \in {"expected bool", "expected i32", "expected u32", "expected f64"}
        /\ fn_out.built.ok =>
             \A k \in DOMAIN fn_in.json.o :
                Numeric(CodecDesc, k) =>
                    /\ fn_out.built.val.fields[k].n = fn_in.json.o[k].n
                    /\ fn_out.built.val.fields[k].b = fn_in.json.o[k].b

\* C16: for an enum field, build_from_json stores the table's number for a
\* name of the enum, fails with "unknown enum" for any other string, stores a
\* raw integer unchanged whether or not the enum defines it, and fails for any
\* other kind of value; normalization passes the unknown name through.
C16_EnumBuild ==
    (fn_out.stage = "built" /\ message_desc(fn_in.name).ok /\ fn_in.json.t = "object") =>
        \A k \in DOMAIN fn_in.json.o :
            (DOMAIN fn_in.json.o = {k} /\ HasFieldNamed(CodecDesc, k) /\ get_field_by_name(CodecDesc, k).kind = "enum") =>
                LET f == get_field_by_name(CodecDesc, k)
                    v == fn_in.json.o[k]
                    r == fn_out.built
                IN  CASE v.t = "string" /\ HasEnumName(f.enum, v.s) ->
                            r.ok /\ r.val.fields[k] = PbEnumNumber(I64(get_value_by_name(f.enum, v.s)))
                      [] v.t = "string" /\ ~HasEnumName(f.enum, v.s) ->
                            /\ ~r.ok /\ r.err.msg = "unknown enum"
                            /\ normalize_json_for_comparison(fn_in.json, NewMessage(CodecDesc)) = Ok(fn_in.json)
                      [] v.t = "int" -> r.ok /\ r.val.fields[k] = PbEnumNumber(v.n)
                      [] OTHER -> ~r.ok

\* C16 for the raw integers of the signed 32-bit range, which the code stores
\* unchanged
C16_WithinI32 ==
    (fn_out.stage = "built" /\ message_desc(fn_in.name).ok /\ fn_in.json.t = "object") =>
        \A k \in DOMAIN fn_in.json.o :
            (DOMAIN fn_in.json.o = {k} /\ HasFieldNamed(CodecDesc, k) /\ get_field_by_name(CodecDesc, k).kind = "enum"
                /\ fn_in.json.o[k].t = "int" /\ InI32(fn_in.json.o[k].n)) =>
                fn_out.built.ok /\ fn_out.built.val.fields[k] = PbEnumNumber(fn_in.json.o[k].n)

----------------------------------------------------------------------------
(* message_desc, applied to a name over descriptor pools that hold the same*)
(* short name under several packages, and as send_message and              *)
(* expect_message call it.                                                 *)

MaxPool == 3

ResolveFullNames == {<<"Ping">>, <<"legacy", "Ping">>, Prefix \o <<"Ping">>, Prefix \o <<"Pong">>}

\* the pools of up to MaxPool messages; a pool holds a full name once
Catalogs ==
    {c \in SeqsUpTo({[full_name |-> n, fields |-> <<>>] : n \in ResolveFullNames}, MaxPool) :
        \A i, j \in 1..Len(c) : c[i] = c[j] => i = j}

ResolveNames == {<<"Ping">>, <<"Pong">>, <<"legacy", "Ping">>, <<"v1", "Ping">>, <<"Nope">>}

InitResolve ==
    /\ InitBroker
    /\ pool \in Catalogs
    /\ fn_in \in [name : ResolveNames]
    /\ fn_out = [done |-> FALSE, res |-> Fail(NoDesc, NoErr)]

\* message_desc(name) is called
ApplyResolve ==
    /\ ~fn_out.done
    /\ fn_out' = [done |-> TRUE, res |-> message_desc(fn_in.name)]
    /\ UNCHANGED <<brokerVars, pool, fn_in>>

NextResolve ==
    \/ ApplyResolve
    \/ SendMessage(fn_in.name, Obj0, TRUE)
    \/ ExpectStart(fn_in.name, Obj0, 0, TRUE)
    \/ RecvTimeout
    \/ RecvMessage
    \/ \E i \in 1..Len(pub_sock) : Forward(i)

SpecResolve == InitResolve /\ [][NextResolve]_vars

\* the positions in pool c of the messages named `name` in full, and of those
\* whose last dot-delimited segment is `name`
ExactAt(c, name) == {i \in 1..Len(c) : c[i].full_name = name}
ShortAt(c, name) == {i \in 1..Len(c) : Len(name) = 1 /\ c[i].full_name[Len(c[i].full_name)] = name[1]}
Lowest(S) == CHOOSE i \in S : \A j \in S : i <= j

\* C13: message_desc(name) returns the schema whose full name is `name` when
\* the pool has one; otherwise the first schema in pool order whose last
\* segment is `name`; otherwise "not found".  An exact match wins over a short
\* match that comes earlier in the pool, and no step of message_desc,
\* send_message or expect_message changes the pool.
C13_ResolveOrder ==
    /\ [](fn_out.done =>
            /\ ExactAt(pool, fn_in.name) # {} =>
                 fn_out.res.ok /\ fn_out.res.val.full_name = fn_in.name
            /\ (ExactAt(pool, fn_in.name) = {} /\ ShortAt(pool, fn_in.name) # {}) =>
                 fn_out.res = Ok(pool[Lowest(ShortAt(pool, fn_in.name))])
            /\ (ExactAt(pool, fn_in.name) = {} /\ ShortAt(pool, fn_in.name) = {}) =>
                 ~fn_out.res.ok /\ fn_out.res.err = Err("message not found", fn_in.name, ""))
    /\ [][pool' = pool]_vars
    /\ [][(op' = "send" /\ calls' = calls + 1) =>
            (result'.ok <=> (ExactAt(pool, message_name') \cup ShortAt(pool, message_name')) # {})]_vars

\* C13 witness: the name is the full name of the last message of the pool and
\* the short name of two earlier ones; the last one was returned, and a send
\* and an expect have run
C13_Witness ==
    /\ fn_out.done /\ fn_in.name = <<"Ping">>
    /\ pool = <<[full_name |-> <<"legacy", "Ping">>, fields |-> <<>>],
                [full_name |-> Prefix \o <<"Ping">>, fields |-> <<>>],
                [full_name |-> <<"Ping">>, fields |-> <<>>]>>
    /\ fn_out.res = Ok(pool[3])
    /\ calls = 2 /\ op = "expect" /\ pub_sock # <<>>

\* C13, second case: without a full-name match the first short-name match in
\* pool order was returned
C13_FirstShort ==
    /\ fn_out.done /\ fn_in.name = <<"Ping">>
    /\ pool = <<[full_name |-> Prefix \o <<"Pong">>, fields |-> <<>>],
                [full_name |-> Prefix \o <<"Ping">>, fields |-> <<>>],
                [full_name |-> <<"legacy", "Ping">>, fields |-> <<>>]>>
    /\ fn_out.res = Ok(pool[2])

----------------------------------------------------------------------------
\* a step of expect_message that receives a message it does not return
DiscardStep == pc = "recv" /\ consumed' # consumed /\ ~Matches(Head(sub_sock), message_name, expected)

----------------------------------------------------------------------------
\* the messages of the log from position i on
RECURSIVE LogFrom(_)
LogFrom(i) == IF i > Len(log) THEN <<>> ELSE <<log[i].msg>> \o LogFrom(i + 1)

\* C17: expect_message receives the queued messages oldest first, returns the
\* first one it receives that has two frames, a decodable payload, the awaited
\* topic and a partial match, and receives nothing after it: of the messages
\* a call has received only the last can satisfy the conditions, and then it
\* is the value returned.
C17_EarliestMatch ==
    /\ [](op = "expect" =>
            \A i \in 1..Len(consumed) :
                Matches(consumed[i], message_name, expected) =>
                    (i = Len(consumed) /\ pc = "idle" /\ result = Ok(Text(consumed[i]))))
    /\ [](sub_sock = LogFrom(Oldest))
    /\ [][(pc = "recv" /\ consumed' # consumed) =>
            (/\ log[Oldest].msg = Head(sub_sock)
             /\ consumed' = Append(consumed, Head(sub_sock))
             /\ sub_sock' = Tail(sub_sock))]_vars
    /\ [][(ExpectReturned /\ op' = "expect" /\ calls' = calls) => (consumed' = consumed /\ result' = result)]_vars

\* C17 witness: the call returned the second message it received; the first
\* had the awaited topic and decoded, but failed the partial match
C17_Witness ==
    /\ ExpectReturned /\ result.ok /\ Len(consumed) = 2
    /\ Decodable(consumed[1]) /\ Topic(consumed[1]) = message_name
    /\ ~PartialMatches(consumed[1], expected)

\* positions of the log received by call number c
ReceivedBy(c) == {i \in 1..Len(log) : log[i].by = c}

\* C18: a message is received by one call only and in arrival order, whether
\* the call returns it or discards it; once received it is never queued or
\* returned again; a returned message is the last one its call received, and
\* the messages behind it stay queued.  So a call that awaits a topic whose
\* only message was discarded by an earlier call, ahead of that call's match,
\* does not succeed.
C18_ConsumedForGood ==
    /\ [](\A i \in 1..Len(log) : (log[i].by = 0) <=> (i >= Oldest))
    /\ [](\A i, j \in 1..Len(log) : (i < j /\ log[j].by # 0) => log[i].by <= log[j].by)
    /\ [](sub_sock = LogFrom(Oldest))
    /\ [][\A i \in 1..Len(log) : log[i].by # 0 => (Len(log') >= i /\ log'[i] = log[i])]_vars
    /\ []((ExpectReturned /\ result.ok) =>
            /\ Oldest - 1 \in ReceivedBy(calls)
            /\ log[Oldest - 1] = Arrival(Last(consumed), calls, TRUE)
            /\ \A i \in ReceivedBy(calls) : log[i].ret => i = Oldest - 1)
    /\ []((ExpectReturned /\ calls = 2) =>
            \A i, j \in ReceivedBy(1) :
                (/\ i < j /\ log[j].ret
                 /\ Topic(log[i].msg) = message_name
                 /\ \A k \in 1..Len(log) : k # i => Topic(log[k].msg) # message_name)
                    => ~result.ok)

\* C18 witness: the first call discarded a Pong message and returned the Ping
\* message behind it; the second call awaits Pong with the empty expectation,
\* which that message satisfies, and times out
C18_Witness ==
    /\ ExpectReturned /\ calls = 2 /\ message_name = <<"Pong">> /\ expected = Obj0
    /\ result.err = TimeoutErr(message_name)
    /\ Len(log) = 2 /\ ReceivedBy(1) = {1, 2}
    /\ ~log[1].ret /\ Matches(log[1].msg, message_name, expected)
    /\ log[2].ret /\ Topic(log[2].msg) = <<"Ping">>

\* C18, the other half: the call returned the first of two queued messages
\* and left the second, which also matches, on the queue
C18_LeftQueued ==
    /\ ExpectReturned /\ result.ok /\ Len(consumed) = 1 /\ Len(sub_sock) = 1
    /\ Matches(Head(sub_sock), message_name, expected)

\* the expectation has a top-level key that the text of no decodable message
\* received in this call has
KeyNeverPresent ==
    /\ expected.t = "object"
    /\ \E k \in DOMAIN expected.o :
         \A i \in 1..Len(consumed) : Decodable(consumed[i]) => k \notin DOMAIN Text(consumed[i]).o

\* C19: an expectation with a top-level key that is absent from the text of
\* every received message (the schema does not define it, or the field is not
\* present) is never satisfied: each message is discarded, no error is raised
\* for the key, and the call ends only with the timeout or a transport error.
C19_AbsentKeyNeverMatches ==
    /\ []((op = "expect" /\ KeyNeverPresent) =>
            /\ ~result.ok
            /\ pc = "recv" => result = NoResult
            /\ pc = "idle" => result.err \in {TimeoutErr(message_name), RecvErr, RcvtimeoErr})
    /\ [][(pc = "recv" /\ consumed' # consumed /\ expected.t = "object"
            /\ \E k \in DOMAIN expected.o : Decodable(Head(sub_sock)) => k \notin DOMAIN Text(Head(sub_sock)).o)
            => (pc' = "recv" /\ result' = NoResult /\ sub_sock' = Tail(sub_sock))]_vars

\* C19 witness: a call whose expectation names a key the schema does not
\* define received two decodable messages of the awaited topic and timed out
C19_Witness ==
    /\ ExpectReturned /\ expected = Obj1("bogus", JInt(1))
    /\ result.err = TimeoutErr(message_name)
    /\ Len(consumed) = 2
    /\ \A i \in 1..2 : Decodable(consumed[i]) /\ Topic(consumed[i]) = message_name

\* C19, second case: the key is a field of the schema that the received
\* message does not hold
C19_FieldNotPresent ==
    /\ op = "expect" /\ pc = "recv" /\ expected = Obj1("seq", JInt(5)) /\ consumed # <<>>
    /\ Decodable(Last(consumed)) /\ Topic(Last(consumed)) = message_name
    /\ "seq" \notin DOMAIN Text(Last(consumed)).o

----------------------------------------------------------------------------
(* json_partial_match on the pairs of a triple of values.                  *)

PreorderValues ==
    Flat \cup {JNull, JStr("OK"), JArr(<<Obj0>>), JArr(<<Obj1("a", One)>>), JArr(<<Obj2("a", One, "b", Two)>>),
               JArr(<<JArr(<<One>>)>>), JArr(<<JArr(<<One, Two>>)>>),
               Obj1("a", JArr(<<One>>)), Obj1("a", JArr(<<Two, One>>)),
               Obj1("a", Obj0), Obj1("a", Obj1("b", One)), Obj1("a", Obj2("a", One, "b", One))}

InitPreorder ==
    /\ InitBroker
    /\ pool = Pool
    /\ fn_in \in [a : PreorderValues, b : PreorderValues, c : PreorderValues]
    /\ fn_out = [done |-> FALSE, aa |-> FALSE, ab |-> FALSE, ba |-> FALSE, bc |-> FALSE, ac |-> FALSE]

\* json_partial_match is called on (a, a), (a, b), (b, a), (b, c) and (a, c)
ApplyPreorder ==
    /\ ~fn_out.done
    /\ fn_out' = [done |-> TRUE,
                  aa |-> json_partial_match(fn_in.a, fn_in.a),
                  ab |-> json_partial_match(fn_in.a, fn_in.b),
                  ba |-> json_partial_match(fn_in.b, fn_in.a),
                  bc |-> json_partial_match(fn_in.b, fn_in.c),
                  ac |-> json_partial_match(fn_in.a, fn_in.c)]
    /\ UNCHANGED <<brokerVars, pool, fn_in>>

NextPreorder == ApplyPreorder

SpecPreorder == InitPreorder /\ [][NextPreorder]_vars

\* C20: json_partial_match is reflexive and transitive, and the empty object
\* matches every object.
C20_PartialMatchPreorder ==
    fn_out.done =>
        /\ fn_out.aa
        /\ (fn_out.ab /\ fn_out.bc) => fn_out.ac
        /\ (fn_in.a = Obj0 /\ fn_in.b.t = "object") => fn_out.ab

\* C20 witness: the relation is not symmetric, and transitivity was used on a
\* chain of three different values: {} matches {"a":{}}, which matches
\* {"a":{"b":1}}, and neither match holds the other way round
C20_Witness ==
    /\ fn_out.done
    /\ fn_in = [a |-> Obj0, b |-> Obj1("a", Obj0), c |-> Obj1("a", Obj1("b", One))]
    /\ fn_out.ab /\ fn_out.bc /\ fn_out.ac /\ ~fn_out.ba

\* C20, for the broker: with the empty expectation, of the messages a call has
\* received only the last can be decodable with the awaited topic, and then
\* the call has returned its text
C20_EmptyExpectation ==
    (op = "expect" /\ expected = Obj0) =>
        \A i \in 1..Len(consumed) :
            (Decodable(consumed[i]) /\ Topic(consumed[i]) = message_name) =>
                (i = Len(consumed) /\ pc = "idle" /\ result = Ok(Text(consumed[i])))

\* ... reached after an undecodable message of the awaited topic was discarded
C20_EmptyExpectationReached ==
    /\ ExpectReturned /\ expected = Obj0 /\ result.ok /\ Len(consumed) = 2
    /\ Topic(consumed[1]) = message_name

====
